---- MODULE Spec2Model ----
(***************************************************************************)
(* A model of news_email.py: the daily news digest script.                 *)
(*                                                                         *)
(* Text is a sequence of one-character strings.  A score is kept in        *)
(* half-points (2.5 points is 5), so that the 0.5 digit bonus is exact.    *)
(* A story is the dictionary that fetch_all_news builds, with one extra    *)
(* field, id, standing for the identity of the Python dict object.         *)
(***************************************************************************)
EXTENDS Integers, Sequences, FiniteSets, TLC

VARIABLES
    pc,               \* position of the run (main) or of the function under call
    env,              \* os.environ: EMAIL_ADDRESS and EMAIL_PASSWORD
    feedIdx,          \* index into RSS_FEEDS of the feed the loop is at
    feedStatus,       \* per feed: what feedparser.parse did
    all_stories,      \* the list fetch_all_news builds / pick_top_stories receives
    n,                \* the count given to pick_top_stories
    top_stories,      \* the list pick_top_stories returned
    email_body,       \* the lines build_email_body returned
    net,              \* network activity so far, in order
    deliveryAttempts, \* how often the SMTP block of send_email was entered
    stages,           \* the stages of main entered so far, in order
    stdout,           \* what the run printed, in order
    failure,          \* the exception that ended the run, or "none"
    exitStatus,       \* the process exit status, or -1 while running
    title,            \* argument of calculate_importance_score
    summary,          \* argument of calculate_importance_score
    score,            \* result of calculate_importance_score (half-points)
    raw_text,         \* argument of strip_html
    clean,            \* strip_html(raw_text)
    clean_again       \* strip_html(clean)

vars == <<pc, env, feedIdx, feedStatus, all_stories, n, top_stories, email_body,
          net, deliveryAttempts, stages, stdout, failure, exitStatus,
          title, summary, score, raw_text, clean, clean_again>>

----------------------------------------------------------------------------
(* Text helpers: Python str and re operations used by the script.          *)

\* c repeated k times ("=" * 50 and the filler of long inputs)
Rep(c, k) == [i \in 1..k |-> c]

\* the characters \s matches and str.strip() drops
Whitespace == {" ", "\n"}

Digits == {"0", "1", "2", "3", "4", "5", "6", "7", "8", "9"}

\* the lower-case letter of every upper-case letter
LowerOf ==
    "A" :> "a" @@ "B" :> "b" @@ "C" :> "c" @@ "D" :> "d" @@ "E" :> "e" @@ "F" :> "f"
    @@ "G" :> "g" @@ "H" :> "h" @@ "I" :> "i" @@ "J" :> "j" @@ "K" :> "k" @@ "L" :> "l"
    @@ "M" :> "m" @@ "N" :> "n" @@ "O" :> "o" @@ "P" :> "p" @@ "Q" :> "q" @@ "R" :> "r"
    @@ "S" :> "s" @@ "T" :> "t" @@ "U" :> "u" @@ "V" :> "v" @@ "W" :> "w" @@ "X" :> "x"
    @@ "Y" :> "y" @@ "Z" :> "z"

\* str.lower() on one character
LowerChar(c) == IF c \in DOMAIN LowerOf THEN LowerOf[c] ELSE c

\* str.lower()
Lower(s) == [i \in 1..Len(s) |-> LowerChar(s[i])]

\* s[:k] for any integer k (a negative k counts from the end)
Slice(s, k) ==
    LET stop == IF k < 0
                THEN (IF Len(s) + k < 0 THEN 0 ELSE Len(s) + k)
                ELSE (IF k > Len(s) THEN Len(s) ELSE k)
    IN  SubSeq(s, 1, stop)

\* str.strip(): drop leading and trailing whitespace
Strip(s) ==
    IF \A i \in 1..Len(s) : s[i] \in Whitespace THEN <<>>
    ELSE LET a == CHOOSE i \in 1..Len(s) :
                     s[i] \notin Whitespace /\ \A j \in 1..(i - 1) : s[j] \in Whitespace
             b == CHOOSE i \in 1..Len(s) :
                     s[i] \notin Whitespace /\ \A j \in (i + 1)..Len(s) : s[j] \in Whitespace
         IN  SubSeq(s, a, b)

\* the mark a substitution leaves where it deletes a character
Gone == ""

\* the characters of marked[lo..hi] that are not Gone, in order
RECURSIVE Compact(_, _, _)
Compact(marked, lo, hi) ==
    IF lo > hi THEN <<>>
    ELSE IF lo = hi THEN (IF marked[lo] = Gone THEN <<>> ELSE <<marked[lo]>>)
    ELSE LET mid == (lo + hi) \div 2
         IN  Compact(marked, lo, mid) \o Compact(marked, mid + 1, hi)

\* `sub in s`: scan the start positions from i on
RECURSIVE ContainsFrom(_, _, _)
ContainsFrom(sub, s, i) ==
    IF i + Len(sub) - 1 > Len(s) THEN FALSE
    ELSE IF SubSeq(s, i, i + Len(sub) - 1) = sub THEN TRUE
    ELSE ContainsFrom(sub, s, i + 1)

Contains(sub, s) == ContainsFrom(sub, s, 1)

\* re.search(r'\d', s) is not None
HasDigit(s) == \E i \in 1..Len(s) : s[i] \in Digits

----------------------------------------------------------------------------
(* Configuration                                                           *)

RSS_FEEDS == <<"reuters", "bbc", "bloomberg", "economist">>

IMPORTANCE_KEYWORDS == <<
    <<"w","a","r">>, <<"c","h","i","n","a">>, <<"u","s">>,
    <<"e","c","o","n","o","m","y">>, <<"a","i">>, <<"m","a","r","k","e","t">>,
    <<"e","l","e","c","t","i","o","n">>, <<"o","i","l">>,
    <<"i","n","f","l","a","t","i","o","n">>, <<"t","e","c","h">>,
    <<"c","r","i","s","i","s">>, <<"n","u","c","l","e","a","r">>,
    <<"c","l","i","m","a","t","e">>, <<"s","a","n","c","t","i","o","n","s">>,
    <<"t","r","a","d","e">>, <<"r","e","c","e","s","s","i","o","n">> >>

TOP_N_STORIES == 5

SUMMARY_MAX_LENGTH == 250

\* feed.entries[:15]
PER_FEED_ENTRIES == 15

\* story["title"][:60]
FINGERPRINT_LENGTH == 60

\* the one-character string U+2026 that strip_html appends
Ellipsis == "..."

----------------------------------------------------------------------------
(* STEP 2: calculate_importance_score                                      *)

\* title weight doubled by mistake in the summary too
RECURSIVE ScoreLoopSummaryAsTitle(_, _, _, _)
ScoreLoopSummaryAsTitle(k, title_lower, summary_lower, acc) ==
    IF k > Len(IMPORTANCE_KEYWORDS) THEN acc
    ELSE LET keyword == IMPORTANCE_KEYWORDS[k]
             t == IF Contains(keyword, title_lower) THEN 4 ELSE 0
             s == IF Contains(keyword, summary_lower) THEN 4 ELSE 0
         IN  ScoreLoopSummaryAsTitle(k + 1, title_lower, summary_lower, acc + t + s)

\* the for loop over IMPORTANCE_KEYWORDS, from keyword k on (half-points)
RECURSIVE ScoreLoop(_, _, _, _)
ScoreLoop(k, title_lower, summary_lower, acc) ==
    IF k > Len(IMPORTANCE_KEYWORDS) THEN acc
    ELSE LET keyword == IMPORTANCE_KEYWORDS[k]
             t == IF Contains(keyword, title_lower) THEN 4 ELSE 0
             s == IF Contains(keyword, summary_lower) THEN 2 ELSE 0
         IN  ScoreLoop(k + 1, title_lower, summary_lower, acc + t + s)

calculate_importance_score(t, s) ==
    ScoreLoop(1, Lower(t), Lower(s), 0) + (IF HasDigit(t) THEN 1 ELSE 0)

----------------------------------------------------------------------------
(* STEP 3: pick_top_stories                                                *)

fingerprint(story) == Strip(Lower(Slice(story.title, FINGERPRINT_LENGTH)))

\* a deduplication that lets the last occurrence replace the first
RECURSIVE DedupLastWins(_, _, _, _)
DedupLastWins(stories, i, seen_titles, unique_stories) ==
    IF i > Len(stories) THEN unique_stories
    ELSE LET story == stories[i]
             fp == fingerprint(story)
         IN  IF fp \notin seen_titles
             THEN DedupLastWins(stories, i + 1, seen_titles \cup {fp},
                                Append(unique_stories, story))
             ELSE DedupLastWins(stories, i + 1, seen_titles,
                                [k \in 1..Len(unique_stories) |->
                                    IF fingerprint(unique_stories[k]) = fp
                                    THEN story ELSE unique_stories[k]])

\* the for loop over all_stories, from story i on
RECURSIVE Dedup(_, _, _, _)
Dedup(stories, i, seen_titles, unique_stories) ==
    IF i > Len(stories) THEN unique_stories
    ELSE LET story == stories[i]
             fp == fingerprint(story)
         IN  IF fp \notin seen_titles
             THEN Dedup(stories, i + 1, seen_titles \cup {fp},
                        Append(unique_stories, story))
             ELSE Dedup(stories, i + 1, seen_titles, unique_stories)

\* an insertion that puts a story in front of the stories of equal score
InsertBeforeEqual(sorted, story) ==
    LET ahead == {k \in 1..Len(sorted) : sorted[k].score > story.score}
        p == Cardinality(ahead)
    IN  SubSeq(sorted, 1, p) \o <<story>> \o SubSeq(sorted, p + 1, Len(sorted))

\* put story into a list sorted by score descending, behind every story
\* whose score is at least its own
InsertDesc(sorted, story) ==
    LET ahead == {k \in 1..Len(sorted) : sorted[k].score >= story.score}
        p == Cardinality(ahead)
    IN  SubSeq(sorted, 1, p) \o <<story>> \o SubSeq(sorted, p + 1, Len(sorted))

\* list.sort(key=score, reverse=True): stable, highest score first
RECURSIVE SortDescFrom(_, _, _)
SortDescFrom(stories, i, sorted) ==
    IF i > Len(stories) THEN sorted
    ELSE SortDescFrom(stories, i + 1, InsertDesc(sorted, stories[i]))

SortByScoreDesc(stories) == SortDescFrom(stories, 1, <<>>)

\* a truncation that forgets the slice
pick_top_stories_untruncated(stories, count) ==
    SortByScoreDesc(Dedup(stories, 1, {}, <<>>))

pick_top_stories(stories, count) ==
    Slice(SortByScoreDesc(Dedup(stories, 1, {}, <<>>)), count)

----------------------------------------------------------------------------
(* STEP 4: strip_html and build_email_body                                 *)

\* Position p of s lies in a match of <[^>]+> when the leftmost matches are
\* taken: a match cannot cross a ">", so the scan starts afresh behind every
\* ">"; from there the first "<" that has at least one character between it
\* and the next ">" opens the match, which that ">" closes.
InTag(s, p, opens, closes) ==
    /\ \E d \in closes : d >= p
    /\ LET d == CHOOSE x \in closes : x >= p /\ \A y \in closes : y >= p => x <= y
       IN  \E i \in opens :
              /\ i <= p
              /\ i <= d - 2
              /\ \A c \in closes : ~(i < c /\ c < p)

\* re.sub(r"<[^>]+>", "", s)
RemoveTags(s) ==
    LET opens  == {i \in 1..Len(s) : s[i] = "<"}
        closes == {i \in 1..Len(s) : s[i] = ">"}
        marked == [p \in 1..Len(s) |->
                      IF InTag(s, p, opens, closes) THEN Gone ELSE s[p]]
    IN  Compact(marked, 1, Len(s))

\* re.sub(r"\s+", " ", s): every run of whitespace becomes one space
CollapseWhitespace(s) ==
    LET marked == [p \in 1..Len(s) |->
                      IF s[p] \notin Whitespace THEN s[p]
                      ELSE IF p > 1 /\ s[p - 1] \in Whitespace THEN Gone
                      ELSE " "]
    IN  Compact(marked, 1, Len(s))

\* the if of strip_html: cut to SUMMARY_MAX_LENGTH and mark the cut
Truncate(s) ==
    IF Len(s) > SUMMARY_MAX_LENGTH
    THEN Append(Slice(s, SUMMARY_MAX_LENGTH), Ellipsis)
    ELSE s

\* the two substitutions in the wrong order: whitespace first, tags second
strip_html_tags_last(text) ==
    Truncate(RemoveTags(Strip(CollapseWhitespace(text))))

strip_html(text) ==
    Truncate(Strip(CollapseWhitespace(RemoveTags(text))))

\* one line of the email; rank is 0 and text empty where the line has none
Line(kind, rank, text) == [kind |-> kind, rank |-> rank, text |-> text]

\* the first four lines: rule, dated heading, rule, blank
Header ==
    << Line("rule=", 0, <<>>), Line("heading", 0, <<"today">>),
       Line("rule=", 0, <<>>), Line("blank", 0, <<>>) >>

Footer ==
    << Line("rule-", 0, <<>>), Line("footer_bot", 0, <<>>),
       Line("footer_powered", 0, <<>>), Line("rule=", 0, <<>>) >>

\* the lines of one story block
StoryBlock(rank, story) ==
    LET cleaned == strip_html(story.summary)
    IN  << Line("story", rank, story.title), Line("source", 0, story.source) >>
        \o (IF story.published # <<>>
            THEN << Line("published", 0, story.published) >> ELSE <<>>)
        \o (IF cleaned # <<>> THEN << Line("summary", 0, cleaned) >> ELSE <<>>)
        \o << Line("blank", 0, <<>>) >>

\* the for loop of build_email_body, from rank on
RECURSIVE StoryBlocksFrom(_, _)
StoryBlocksFrom(stories, rank) ==
    IF rank > Len(stories) THEN <<>>
    ELSE StoryBlock(rank, stories[rank]) \o StoryBlocksFrom(stories, rank + 1)

\* build_email_body without the test for an empty list
build_email_body_no_guard(stories) ==
    Header \o StoryBlocksFrom(stories, 1) \o Footer

\* the lines that build_email_body joins with newlines
build_email_body(stories) ==
    IF stories = <<>>
    THEN Append(Header, Line("no_stories", 0, <<>>))
    ELSE Header \o StoryBlocksFrom(stories, 1) \o Footer

----------------------------------------------------------------------------
(* Bounds of the inputs                                                    *)

MaxStories == 3      \* stories handed to pick_top_stories
MaxN == 4            \* largest count handed to pick_top_stories
MaxTitleWords == 4   \* pieces a scored title is put together from
MaxSummaryWords == 2 \* pieces a scored summary is put together from
MaxHeadLen == 1      \* characters in front of the filler of a cleaned text
MaxTailLen == 3      \* characters behind the filler of a cleaned text

\* every sequence over alphabet of at most len elements
Texts(alphabet, len) == UNION {[1..k -> alphabet] : k \in 0..len}

----------------------------------------------------------------------------
(* STEP 1: the story fetch_all_news builds from one feed entry             *)

\* entry.get(key, default) on a feed entry; keys is the set of keys it has
Get(entry, key, default) == IF key \in entry.keys THEN entry[key] ELSE default

NoTitle == <<"N","o"," ","t","i","t","l","e">>

MakeStory(id, entry, source) ==
    LET t == Get(entry, "title", NoTitle)
        s == Get(entry, "summary", <<>>)
    IN  [ id        |-> id,
          title     |-> t,
          summary   |-> s,
          published |-> Get(entry, "published", <<>>),
          source    |-> source,
          score     |-> calculate_importance_score(t, s) ]

\* the inner for loop: the stories of entries[:15], appended to stories
RECURSIVE AppendStories(_, _, _, _)
AppendStories(stories, entries, k, source) ==
    IF k > Len(Slice(entries, PER_FEED_ENTRIES)) THEN stories
    ELSE AppendStories(Append(stories, MakeStory(Len(stories) + 1, entries[k], source)),
                       entries, k + 1, source)

\* a feed entry holding the three keys the script reads
FullEntry(t, s, p) ==
    [keys |-> {"title", "summary", "published"}, title |-> t, summary |-> s,
     published |-> p]

\* a feed entry holding none of them
BareEntry == [keys |-> {}, title |-> <<>>, summary |-> <<>>, published |-> <<>>]

----------------------------------------------------------------------------
(* The variables a specification does not use keep these values.           *)

RunIdle ==
    /\ env = [EMAIL_ADDRESS |-> "unset", EMAIL_PASSWORD |-> "unset"]
    /\ feedIdx = 0
    /\ feedStatus = [i \in 1..Len(RSS_FEEDS) |-> [outcome |-> "pending", entries |-> 0]]
    /\ email_body = <<>>
    /\ net = <<>>
    /\ deliveryAttempts = 0
    /\ stages = <<>>
    /\ stdout = <<>>
    /\ failure = "none"
    /\ exitStatus = -1

PickIdle == all_stories = <<>> /\ n = TOP_N_STORIES /\ top_stories = <<>>

ScoreIdle == title = <<>> /\ summary = <<>> /\ score = 0

CleanIdle == raw_text = <<>> /\ clean = <<>> /\ clean_again = <<>>

----------------------------------------------------------------------------
(* SpecPick: pick_top_stories on every bounded story list and count.       *)

\* pairs with equal fingerprints and different scores, and with different
\* fingerprints and equal scores
PickEntries ==
    { FullEntry(<<"U","s">>, <<>>, <<>>),
      FullEntry(<<"u","s"," ">>, <<"a","i">>, <<>>),
      FullEntry(<<"a","i">>, <<>>, <<>>),
      FullEntry(Rep("x", FINGERPRINT_LENGTH) \o <<"1">>, <<>>, <<>>),
      FullEntry(Rep("X", FINGERPRINT_LENGTH) \o <<"u","s">>, <<>>, <<>>),
      FullEntry(Rep("x", FINGERPRINT_LENGTH - 1) \o <<" ","z">>, <<>>, <<>>),
      FullEntry(Rep("x", FINGERPRINT_LENGTH - 1), <<"a","i">>, <<>>) }

\* the stories fetch_all_news builds from these entries
PickStories == {MakeStory(0, e, <<"feed">>) : e \in PickEntries}

InitPick ==
    /\ pc = "call"
    /\ \E ss \in Texts(PickStories, MaxStories) :
          all_stories = [i \in 1..Len(ss) |-> [ss[i] EXCEPT !.id = i]]
    /\ n \in 0..MaxN
    /\ top_stories = <<>>
    /\ RunIdle /\ ScoreIdle /\ CleanIdle

CallPick ==
    /\ pc = "call"
    /\ top_stories' = pick_top_stories(all_stories, n)
    /\ pc' = "returned"
    /\ UNCHANGED <<env, feedIdx, feedStatus, all_stories, n, email_body, net,
                   deliveryAttempts, stages, stdout, failure, exitStatus,
                   title, summary, score, raw_text, clean, clean_again>>

NextPick == CallPick

SpecPick == InitPick /\ [][NextPick]_vars

----------------------------------------------------------------------------
(* SpecScore: calculate_importance_score on every bounded title, summary.  *)

\* pieces that make keywords in either case, split keywords and digits
TitleWords == { <<"U","s">>, <<"a">>, <<"i">>, <<"3">> }

SummaryWords == { <<"u","s">>, <<"A">>, <<"i">> }

\* the words of ws[k..], one after the other
RECURSIVE Flatten(_, _)
Flatten(ws, k) == IF k > Len(ws) THEN <<>> ELSE ws[k] \o Flatten(ws, k + 1)

InitScore ==
    /\ pc = "call"
    /\ \E ws \in Texts(TitleWords, MaxTitleWords) : title = Flatten(ws, 1)
    /\ \E ws \in Texts(SummaryWords, MaxSummaryWords) : summary = Flatten(ws, 1)
    /\ score = 0
    /\ RunIdle /\ PickIdle /\ CleanIdle

CallScore ==
    /\ pc = "call"
    /\ score' = calculate_importance_score(title, summary)
    /\ pc' = "returned"
    /\ UNCHANGED <<env, feedIdx, feedStatus, all_stories, n, top_stories, email_body,
                   net, deliveryAttempts, stages, stdout, failure, exitStatus,
                   title, summary, raw_text, clean, clean_again>>

NextScore == CallScore

SpecScore == InitScore /\ [][NextScore]_vars

----------------------------------------------------------------------------
(* SpecClean: strip_html on bounded texts, then on its own result.         *)

CleanChars == {"<", ">", " ", "\n", "a"}

\* filler lengths: none, and enough to put the cut inside the last characters
Fillers == {0, SUMMARY_MAX_LENGTH - 2}

InitClean ==
    /\ pc = "call"
    /\ \E head \in Texts(CleanChars, MaxHeadLen), tail \in Texts(CleanChars, MaxTailLen),
          k \in Fillers : raw_text = head \o Rep("a", k) \o tail
    /\ clean = <<>>
    /\ clean_again = <<>>
    /\ RunIdle /\ PickIdle /\ ScoreIdle

CallClean ==
    /\ pc = "call"
    /\ clean' = strip_html(raw_text)
    /\ pc' = "returned"
    /\ UNCHANGED <<env, feedIdx, feedStatus, all_stories, n, top_stories, email_body,
                   net, deliveryAttempts, stages, stdout, failure, exitStatus,
                   title, summary, score, raw_text, clean_again>>

CallCleanAgain ==
    /\ pc = "returned"
    /\ clean_again' = strip_html(clean)
    /\ pc' = "returned_again"
    /\ UNCHANGED <<env, feedIdx, feedStatus, all_stories, n, top_stories, email_body,
                   net, deliveryAttempts, stages, stdout, failure, exitStatus,
                   title, summary, score, raw_text, clean>>

NextClean == CallClean \/ CallCleanAgain

SpecClean == InitClean /\ [][NextClean]_vars

----------------------------------------------------------------------------
(* Spec: one run of main().                                                *)

\* what os.environ may hold for a credential: no variable, "", or a value
CredentialValues == {"unset", "", "secret"}

\* `not value` for the result of os.environ.get
Missing(value) == value \in {"unset", ""}

SampleEntry == FullEntry(<<"U","s"," ","3">>, <<"<","b",">","a","i">>, <<"Mon">>)

\* what feedparser.parse may return: the empty result it returns with bozo
\* set when it caught the failure itself, or the entries it parsed: none,
\* one, two, or more than the script takes
ParseResults ==
    { [bozo |-> TRUE,  entries |-> <<>>, has_title |-> FALSE],
      [bozo |-> FALSE, entries |-> <<>>, has_title |-> TRUE],
      [bozo |-> FALSE, entries |-> <<SampleEntry>>, has_title |-> TRUE],
      [bozo |-> FALSE, entries |-> <<BareEntry>>, has_title |-> FALSE],
      [bozo |-> FALSE, entries |-> <<SampleEntry, BareEntry>>, has_title |-> FALSE],
      [bozo |-> FALSE, entries |-> Rep(BareEntry, PER_FEED_ENTRIES + 1),
       has_title |-> TRUE] }

\* feed.feed.get("title", feed_url)
Source(result, feed_url) ==
    IF result.has_title THEN <<"title of", feed_url>> ELSE <<feed_url>>

Init ==
    /\ pc = "main"
    /\ env \in [EMAIL_ADDRESS : CredentialValues, EMAIL_PASSWORD : CredentialValues]
    /\ feedIdx = 0
    /\ feedStatus = [i \in 1..Len(RSS_FEEDS) |-> [outcome |-> "pending", entries |-> 0]]
    /\ all_stories = <<>>
    /\ n = TOP_N_STORIES
    /\ top_stories = <<>>
    /\ email_body = <<>>
    /\ net = <<>>
    /\ deliveryAttempts = 0
    /\ stages = <<>>
    /\ stdout = <<>>
    /\ failure = "none"
    /\ exitStatus = -1
    /\ ScoreIdle /\ CleanIdle

\* main() up to the call of fetch_all_news
MainStart ==
    /\ pc = "main"
    /\ stdout' = stdout \o <<"starting", "step 1/4">>
    /\ stages' = Append(stages, "fetch")
    /\ feedIdx' = 1
    /\ pc' = "fetch"
    /\ UNCHANGED <<env, feedStatus, all_stories, n, top_stories, email_body, net,
                   deliveryAttempts, failure, exitStatus,
                   title, summary, score, raw_text, clean, clean_again>>

\* one round of the loop over RSS_FEEDS in which feedparser.parse returns;
\* behind the last feed fetch_all_news returns and main prints the count
FetchFeed(result) ==
    /\ pc = "fetch"
    /\ feedIdx <= Len(RSS_FEEDS)
    /\ net' = Append(net, <<"feed", RSS_FEEDS[feedIdx]>>)
    /\ all_stories' = AppendStories(all_stories, result.entries, 1,
                                    Source(result, RSS_FEEDS[feedIdx]))
    /\ feedStatus' = [feedStatus EXCEPT ![feedIdx] =
                         [outcome |-> IF result.bozo THEN "bozo" ELSE "ok",
                          entries |-> Len(Slice(result.entries, PER_FEED_ENTRIES))]]
    /\ feedIdx' = feedIdx + 1
    /\ IF feedIdx = Len(RSS_FEEDS)
       THEN /\ stdout' = stdout \o <<"fetching", "collected">>
            /\ pc' = "pick"
       ELSE /\ stdout' = Append(stdout, "fetching")
            /\ pc' = "fetch"
    /\ UNCHANGED <<env, n, top_stories, email_body, deliveryAttempts, stages,
                   failure, exitStatus, title, summary, score, raw_text, clean,
                   clean_again>>

\* one round of the loop in which feedparser.parse raises (a failure of the
\* retrieval that the library does not turn into a bozo result): the call at
\* line 60 stands in no try block, so nothing in fetch_all_news or main
\* catches it, and the interpreter exits with status 1
FetchFeedRaises ==
    /\ pc = "fetch"
    /\ feedIdx <= Len(RSS_FEEDS)
    /\ net' = Append(net, <<"feed", RSS_FEEDS[feedIdx]>>)
    /\ feedStatus' = [feedStatus EXCEPT ![feedIdx] =
                         [outcome |-> "raised", entries |-> 0]]
    /\ stdout' = Append(stdout, "fetching")
    /\ failure' = "feed error"
    /\ exitStatus' = 1
    /\ pc' = "failed"
    /\ UNCHANGED <<env, feedIdx, all_stories, n, top_stories, email_body,
                   deliveryAttempts, stages, title, summary, score, raw_text,
                   clean, clean_again>>

\* main(): steps 2 and 3, pick_top_stories
PickTopStories ==
    /\ pc = "pick"
    /\ stages' = Append(stages, "select")
    /\ top_stories' = pick_top_stories(all_stories, n)
    /\ stdout' = stdout \o <<"step 2/4", "selected">>
    /\ pc' = "build"
    /\ UNCHANGED <<env, feedIdx, feedStatus, all_stories, n, email_body, net,
                   deliveryAttempts, failure, exitStatus,
                   title, summary, score, raw_text, clean, clean_again>>

\* main(): build_email_body
BuildEmail ==
    /\ pc = "build"
    /\ stages' = Append(stages, "format")
    /\ email_body' = build_email_body(top_stories)
    /\ stdout' = stdout \o <<"step 3/4", "body ready">>
    /\ pc' = "send"
    /\ UNCHANGED <<env, feedIdx, feedStatus, all_stories, n, top_stories, net,
                   deliveryAttempts, failure, exitStatus,
                   title, summary, score, raw_text, clean, clean_again>>

\* send_email up to the SMTP block: read the credentials, raise ValueError
\* when one is missing, else build the message
SendEmailCheck ==
    /\ pc = "send"
    /\ stages' = Append(stages, "deliver")
    /\ IF Missing(env.EMAIL_ADDRESS) \/ Missing(env.EMAIL_PASSWORD)
       THEN /\ stdout' = Append(stdout, "step 4/4")
            /\ failure' = "ValueError"
            /\ exitStatus' = 1
            /\ pc' = "failed"
       ELSE /\ stdout' = stdout \o <<"step 4/4", "connecting">>
            /\ UNCHANGED <<failure, exitStatus>>
            /\ pc' = "smtp"
    /\ UNCHANGED <<env, feedIdx, feedStatus, all_stories, n, top_stories, email_body,
                   net, deliveryAttempts, title, summary, score, raw_text, clean,
                   clean_again>>

SmtpOutcomes == {"connect failed", "login failed", "sendmail failed", "sent"}

\* a delivery block that tries again when the transport fails
SendEmailSmtpRetrying(outcome) ==
    /\ pc = "smtp"
    /\ deliveryAttempts < 3
    /\ net' = Append(net, <<"smtp", "smtp.gmail.com">>)
    /\ deliveryAttempts' = deliveryAttempts + 1
    /\ IF outcome = "sent"
       THEN /\ stdout' = stdout \o <<"email sent", "all done">>
            /\ exitStatus' = 0
            /\ pc' = "done"
       ELSE /\ UNCHANGED <<stdout, exitStatus>>
            /\ pc' = "smtp"
    /\ UNCHANGED <<env, feedIdx, feedStatus, all_stories, n, top_stories, email_body,
                   stages, failure, title, summary, score, raw_text, clean, clean_again>>

\* a delivery block that swallows the transport error and reports success
SendEmailSmtpSwallowing(outcome) ==
    /\ pc = "smtp"
    /\ net' = Append(net, <<"smtp", "smtp.gmail.com">>)
    /\ deliveryAttempts' = deliveryAttempts + 1
    /\ stdout' = IF outcome = "sent" THEN stdout \o <<"email sent", "all done">>
                 ELSE Append(stdout, "all done")
    /\ failure' = IF outcome = "sent" THEN failure ELSE outcome
    /\ exitStatus' = 0
    /\ pc' = "done"
    /\ UNCHANGED <<env, feedIdx, feedStatus, all_stories, n, top_stories, email_body,
                   stages, title, summary, score, raw_text, clean, clean_again>>

\* the with block of send_email and the rest of main: connect, log in, send;
\* an error of the transport is caught nowhere; after sendmail returns both
\* confirmations are printed and the process ends with status 0
SendEmailSmtp(outcome) ==
    /\ pc = "smtp"
    /\ net' = Append(net, <<"smtp", "smtp.gmail.com">>)
    /\ deliveryAttempts' = deliveryAttempts + 1
    /\ IF outcome = "sent"
       THEN /\ stdout' = stdout \o <<"email sent", "all done">>
            /\ exitStatus' = 0
            /\ pc' = "done"
            /\ UNCHANGED failure
       ELSE /\ failure' = outcome
            /\ exitStatus' = 1
            /\ pc' = "failed"
            /\ UNCHANGED stdout
    /\ UNCHANGED <<env, feedIdx, feedStatus, all_stories, n, top_stories, email_body,
                   stages, title, summary, score, raw_text, clean, clean_again>>

Next ==
    \/ MainStart
    \/ \E result \in ParseResults : FetchFeed(result)
    \/ FetchFeedRaises
    \/ PickTopStories
    \/ BuildEmail
    \/ SendEmailCheck
    \/ \E outcome \in SmtpOutcomes : SendEmailSmtp(outcome)

Spec == Init /\ [][Next]_vars

----------------------------------------------------------------------------
(* Properties                                                              *)

\* the identities of the stories pick_top_stories returned
ResultIds == {top_stories[k].id : k \in 1..Len(top_stories)}

\* the fingerprints of the stories handed to pick_top_stories
Fingerprints == {fingerprint(all_stories[i]) : i \in 1..Len(all_stories)}

\* story i is the first of the input with its fingerprint
IsFirstOccurrence(i) ==
    \A h \in 1..(i - 1) : fingerprint(all_stories[h]) # fingerprint(all_stories[i])

Min(a, b) == IF a <= b THEN a ELSE b

\* C1: of two stories with the same fingerprint pick_top_stories never
\* returns the later one, whatever the scores; the first one is the
\* candidate, and is returned whenever the count does not cut it off.
C1_FirstOccurrenceWins ==
    pc = "returned" =>
        /\ \A i, j \in 1..Len(all_stories) :
              (i < j /\ fingerprint(all_stories[i]) = fingerprint(all_stories[j]))
                  => all_stories[j].id \notin ResultIds
        /\ n >= Len(all_stories) =>
              \A i \in 1..Len(all_stories) :
                  IsFirstOccurrence(i) => all_stories[i].id \in ResultIds

\* a later duplicate with the strictly higher score lost against the first
C1_Witness ==
    /\ pc = "returned"
    /\ \E i, j \in 1..Len(all_stories) :
          /\ i < j
          /\ fingerprint(all_stories[i]) = fingerprint(all_stories[j])
          /\ all_stories[j].score > all_stories[i].score
          /\ all_stories[i].id \in ResultIds
          /\ all_stories[j].id \notin ResultIds

\* C2: the result is ordered by score, highest first, and stories of equal
\* score keep the order they had in the input after deduplication.
C2_SortedDescStable ==
    pc = "returned" =>
        \A p, q \in 1..Len(top_stories) :
            p < q =>
                /\ top_stories[p].score >= top_stories[q].score
                /\ top_stories[p].score = top_stories[q].score
                      => top_stories[p].id < top_stories[q].id

\* two returned stories tie, and a story of higher score that came later in
\* the input was moved in front of them
C2_Witness ==
    /\ pc = "returned"
    /\ \E p, q, r \in 1..Len(top_stories) :
          /\ p < q /\ q < r
          /\ top_stories[q].score = top_stories[r].score
          /\ top_stories[p].score > top_stories[q].score
          /\ top_stories[p].id > top_stories[q].id

\* C3: the result has min(n, number of stories that survive the
\* deduplication) stories; an empty input gives an empty result.
C3_LengthIsMin ==
    pc = "returned" =>
        /\ Len(top_stories) = Min(n, Cardinality(Fingerprints))
        /\ all_stories = <<>> => top_stories = <<>>

\* the count cut the result short of the survivors, of which there were
\* fewer than stories
C3_Witness ==
    /\ pc = "returned"
    /\ 0 < n
    /\ n < Cardinality(Fingerprints)
    /\ Cardinality(Fingerprints) < Len(all_stories)
    /\ Len(top_stories) = n

\* sub occurs in s, at some position
Occurs(sub, s) ==
    \E i \in 1..(Len(s) - Len(sub) + 1) : SubSeq(s, i, i + Len(sub) - 1) = sub

KeywordSet == {IMPORTANCE_KEYWORDS[k] : k \in 1..Len(IMPORTANCE_KEYWORDS)}

\* C4: the score is 2 points for every keyword that occurs in the
\* lower-cased title, 1 point for every keyword that occurs in the
\* lower-cased summary and half a point when the title holds a digit
\* (in half-points: 4, 2 and 1); a keyword counts once for a field.
C4_ScoreFormula ==
    pc = "returned" =>
        score = 4 * Cardinality({kw \in KeywordSet : Occurs(kw, Lower(title))})
              + 2 * Cardinality({kw \in KeywordSet : Occurs(kw, Lower(summary))})
              + (IF \E i \in 1..Len(title) : title[i] \in Digits THEN 1 ELSE 0)

\* a title with a digit and one keyword twice, in upper case once, and a
\* summary with a keyword
C4_Witness ==
    /\ pc = "returned"
    /\ \E i \in 1..Len(title) : title[i] \in Digits
    /\ \E kw \in KeywordSet : \E i, j \in 1..Len(title) :
          /\ i < j
          /\ j + Len(kw) - 1 <= Len(title)
          /\ SubSeq(Lower(title), i, i + Len(kw) - 1) = kw
          /\ SubSeq(Lower(title), j, j + Len(kw) - 1) = kw
          /\ SubSeq(title, i, i + Len(kw) - 1) # kw
    /\ \E kw \in KeywordSet : Occurs(kw, Lower(summary))
    /\ score = 7

\* C5: strip_html applied to its own result returns that result.
C5_StripHtmlIdempotent ==
    pc = "returned_again" => clean_again = clean

\* a text with a tag that was cut to SUMMARY_MAX_LENGTH and marked
C5_Witness ==
    /\ pc = "returned_again"
    /\ \E i \in 1..Len(raw_text) : raw_text[i] = "<"
    /\ \A i \in 1..Len(clean) : clean[i] # "<"
    /\ Len(clean) = SUMMARY_MAX_LENGTH + 1
    /\ clean[Len(clean)] = Ellipsis

CredentialsAbsent == Missing(env.EMAIL_ADDRESS) \/ Missing(env.EMAIL_PASSWORD)

\* C6: in a run in which a credential is absent there is no network
\* activity: the run fails with the configuration error before any.
C6_NoNetworkWithoutCredentials ==
    CredentialsAbsent => net = <<>>

Feeds == 1..Len(RSS_FEEDS)

\* the number of stories the feeds before feed i contributed
RECURSIVE StoriesBefore(_)
StoriesBefore(i) ==
    IF i <= 1 THEN 0 ELSE StoriesBefore(i - 1) + feedStatus[i - 1].entries

\* C7: when a feed fails, fetch_all_news does not abort: every feed is
\* processed, the failing feed contributes nothing and the list returned
\* holds the stories of the other feeds.
C7_FailingFeedDoesNotAbort ==
    (\E i \in Feeds : feedStatus[i].outcome \in {"bozo", "raised"}) =>
        /\ failure # "feed error"
        /\ \A i \in Feeds : feedStatus[i].outcome \in {"bozo", "raised"} =>
              feedStatus[i].entries = 0
        /\ pc # "fetch" =>
              /\ \A i \in Feeds : feedStatus[i].outcome # "pending"
              /\ Len(all_stories) = StoriesBefore(Len(RSS_FEEDS) + 1)

\* the connections to the mail server in the network activity
SmtpConnections == {k \in 1..Len(net) : net[k][1] = "smtp"}

StagesEntered == {stages[k] : k \in 1..Len(stages)}

\* C8: delivery is attempted at most once in a run, only with the rendered
\* report, and never again after it failed.
C8_DeliveryAtMostOnce ==
    /\ deliveryAttempts <= 1
    /\ Cardinality(SmtpConnections) <= 1
    /\ (deliveryAttempts > 0 \/ SmtpConnections # {}) =>
          /\ "format" \in StagesEntered
          /\ email_body = build_email_body(top_stories)
          /\ email_body # <<>>

\* a delivery failed and the run ended with that one attempt
C8_Witness ==
    /\ failure = "login failed"
    /\ deliveryAttempts = 1
    /\ Cardinality(SmtpConnections) = 1

\* C9: for an empty ranked list build_email_body raises nothing and
\* returns the header and the one no-stories line, without a story block.
C9_EmptyReport ==
    ("format" \in StagesEntered /\ top_stories = <<>>) =>
        /\ pc = "send" => failure = "none"
        /\ Len(email_body) = 5
        /\ SubSeq(email_body, 1, 4) = Header
        /\ email_body[5].kind = "no_stories"
        /\ \A k \in 1..Len(email_body) :
              email_body[k].kind \notin {"story", "source", "published", "summary"}

\* every feed was processed and gave no story, and the report was built
C9_Witness ==
    /\ pc = "send"
    /\ \A i \in Feeds : feedStatus[i].outcome \in {"ok", "bozo"}
    /\ \E i \in Feeds : feedStatus[i].outcome = "bozo"
    /\ all_stories = <<>>
    /\ top_stories = <<>>
    /\ Len(email_body) = 5

Printed == {stdout[k] : k \in 1..Len(stdout)}

\* the stage a failure belongs to
StageOf(f) == IF f = "feed error" THEN "fetch" ELSE "deliver"

\* C10: the final confirmation is printed only when fetch, selection,
\* formatting and delivery all completed; a failure ends the run with a
\* failure status, in the stage it happened in, and no confirmation.
C10_NoPartialSuccess ==
    /\ "all done" \in Printed =>
          /\ failure = "none"
          /\ exitStatus = 0
          /\ stages = <<"fetch", "select", "format", "deliver">>
          /\ \A i \in Feeds : feedStatus[i].outcome \in {"ok", "bozo"}
          /\ deliveryAttempts = 1
          /\ "email sent" \in Printed
    /\ failure # "none" =>
          /\ exitStatus = 1
          /\ pc = "failed"
          /\ "all done" \notin Printed
          /\ "email sent" \notin Printed
          /\ stages[Len(stages)] = StageOf(failure)
          /\ failure = "feed error" =>
                top_stories = <<>> /\ email_body = <<>> /\ deliveryAttempts = 0
          /\ failure = "ValueError" => deliveryAttempts = 0 /\ SmtpConnections = {}
    /\ exitStatus = 0 => "all done" \in Printed

\* the transport failed after fetch, selection and formatting had succeeded
C10_Witness ==
    /\ failure = "sendmail failed"
    /\ exitStatus = 1
    /\ stages = <<"fetch", "select", "format", "deliver">>
    /\ "all done" \notin Printed

====
